---- MODULE Spec2Model ----
(***************************************************************************)
(* Macro atoms of the math editor: MacroAtom (constructor, fromJson,       *)
(* toJson, _serialize, applyStyle, render, reloadArgs), the upward walk    *)
(* reloadParentsMacros and the template matcher extractArgumentsWithOrder. *)
(*                                                                         *)
(* A JavaScript string is a sequence of one-character strings.  A value    *)
(* that may be null or undefined is a pair <<tag, string>>.                *)
(*                                                                         *)
(* Spec:      the editor: macros are inserted, edited, reloaded, walked,   *)
(*            serialized, rendered, styled and snapshotted.                *)
(* SpecWalk:  parsed trees of every bounded shape under edits and walks.   *)
(* SpecMatch: one macro of any bounded template and body, reloaded.        *)
(***************************************************************************)
EXTENDS Integers, Sequences, FiniteSets, TLC

\* ------------------------------------------------------------------ bounds
\* Number of atoms a tree may hold.
MaxNodes == 5
\* Number of tokens a definition template is built from in the matcher runs.
MaxTmplToks == 3
\* Length of the body text of the matcher runs.
MaxBodyLen == 3

\* ------------------------------------------------------- JavaScript values
Null == <<"null", <<>>>>
Undefined == <<"undefined", <<>>>>
Str(s) == <<"string", s>>
IsStr(v) == v[1] = "string"
\* v ?? d
Coalesce(v, d) == IF IsStr(v) THEN v[2] ELSE d
\* the truthiness of a string, null or undefined
Truthy(v) == IsStr(v) /\ v[2] # <<>>

RECURSIVE Concat(_)
\* Array.prototype.join(''): the concatenation of a sequence of strings
Concat(ss) == IF ss = <<>> THEN <<>> ELSE Head(ss) \o Concat(Tail(ss))

\* --------------------------------------------------------- template matcher
\* the characters the character class of line 138 escapes
SpecialChars == {".", "*", "+", "?", "^", "$", "{", "}", "(", ")", "|", "[", "]", "\\"}
\* \d
Digits == {"0", "1", "2", "3", "4", "5", "6", "7", "8", "9"}
\* what . does not match (no s flag)
LineTerminators == {"\n", "\r"}
\* what String.prototype.trim removes
WhiteSpace == {" ", "\t", "\f"} \cup LineTerminators
\* the capture group each placeholder is replaced with
CaptureGroup == <<"(", ".", "*", "?", ")">>
\* new Array(8): the positional arguments #1..#8
ArgSlots == 8

\* a template.replace that escapes nothing
EscapeNone(t) == t

RECURSIVE EscapeTemplate(_)
\* template.replace(/([.*+?^${}()|[\]\\])/g, '\\$1')
EscapeTemplate(t) ==
  IF t = <<>> THEN <<>>
  ELSE (IF Head(t) \in SpecialChars THEN <<"\\", Head(t)>> ELSE <<Head(t)>>)
       \o EscapeTemplate(Tail(t))

RECURSIVE DigitRun(_, _)
\* the end of the longest run of digits of t that starts at i (i - 1 when none)
DigitRun(t, i) ==
  IF i <= Len(t) /\ t[i] \in Digits THEN DigitRun(t, i + 1) ELSE i - 1

RECURSIVE PlaceholdersFrom(_, _)
\* the matches of /\#(\d+)/g in t from position i on, each as `#${match[1]}`
PlaceholdersFrom(t, i) ==
  IF i > Len(t) THEN <<>>
  ELSE IF t[i] = "#" /\ DigitRun(t, i + 1) > i
       THEN <<SubSeq(t, i, DigitRun(t, i + 1))>>
            \o PlaceholdersFrom(t, DigitRun(t, i + 1) + 1)
       ELSE PlaceholdersFrom(t, i + 1)

\* the placeholders of the template, in the order they appear
Placeholders(t) == PlaceholdersFrom(t, 1)

\* s has pat at position i
HasAt(s, pat, i) ==
  i + Len(pat) - 1 <= Len(s) /\ SubSeq(s, i, i + Len(pat) - 1) = pat

RECURSIVE ReplaceAllFrom(_, _, _, _)
ReplaceAllFrom(s, pat, rep, i) ==
  IF i > Len(s) THEN <<>>
  ELSE IF HasAt(s, pat, i)
       THEN rep \o ReplaceAllFrom(s, pat, rep, i + Len(pat))
       ELSE <<s[i]>> \o ReplaceAllFrom(s, pat, rep, i + 1)

\* s.replace(new RegExp(pat, 'g'), rep) for a pattern of # and digits
ReplaceAll(s, pat, rep) == ReplaceAllFrom(s, pat, rep, 1)

RECURSIVE SubstituteGroups(_, _)
\* the loop of lines 146-153: every placeholder found, in order, replaced
\* throughout the escaped template by a capture group
SubstituteGroups(escaped, phs) ==
  IF phs = <<>> THEN escaped
  ELSE SubstituteGroups(ReplaceAll(escaped, Head(phs), CaptureGroup), Tail(phs))

RECURSIVE CompileFrom(_, _)
\* the pattern source read as a regular expression: \c is the character c,
\* (.*?) a lazy capture group, . any character but a line terminator,
\* any other character itself
CompileFrom(src, i) ==
  IF i > Len(src) THEN <<>>
  ELSE IF src[i] = "\\" /\ i < Len(src)
       THEN <<<<"lit", src[i + 1]>>>> \o CompileFrom(src, i + 2)
  ELSE IF HasAt(src, CaptureGroup, i)
       THEN <<<<"group", "">>>> \o CompileFrom(src, i + Len(CaptureGroup))
  ELSE IF src[i] = "."
       THEN <<<<"any", "">>>> \o CompileFrom(src, i + 1)
  ELSE <<<<"lit", src[i]>>>> \o CompileFrom(src, i + 1)

\* new RegExp(`^${escapedTemplate}$`), as the tokens between the anchors
Compile(src) == CompileFrom(src, 1)

NoMatch == <<"nomatch", <<>>>>
Matched(caps) == <<"match", caps>>

RECURSIVE MatchFrom(_, _, _, _)
RECURSIVE GroupLazy(_, _, _, _, _)

\* the lazy group (.*?) at token k: the shortest capture, from length len
\* up, after which the rest of the pattern matches the rest of s
GroupLazy(toks, k, s, pos, len) ==
  IF pos + len - 1 > Len(s) THEN NoMatch
  ELSE IF len > 0 /\ s[pos + len - 1] \in LineTerminators THEN NoMatch
  ELSE LET rest == MatchFrom(toks, k + 1, s, pos + len)
       IN IF rest[1] = "match"
          THEN Matched(<<SubSeq(s, pos, pos + len - 1)>> \o rest[2])
          ELSE GroupLazy(toks, k, s, pos, len + 1)

\* the backtracking match of tokens k.. against s from pos to its end ($)
MatchFrom(toks, k, s, pos) ==
  IF k > Len(toks)
  THEN (IF pos = Len(s) + 1 THEN Matched(<<>>) ELSE NoMatch)
  ELSE IF toks[k][1] = "group" THEN GroupLazy(toks, k, s, pos, 0)
  ELSE IF pos > Len(s) THEN NoMatch
  ELSE IF toks[k][1] = "any"
       THEN (IF s[pos] \in LineTerminators THEN NoMatch
             ELSE MatchFrom(toks, k + 1, s, pos + 1))
  ELSE IF s[pos] = toks[k][2] THEN MatchFrom(toks, k + 1, s, pos + 1)
  ELSE NoMatch

\* inputString.match(regex): the captures matchResult[1..], or no match
RegexMatch(toks, s) == MatchFrom(toks, 1, s, 1)

RECURSIVE TrimStart(_)
TrimStart(s) ==
  IF s # <<>> /\ Head(s) \in WhiteSpace THEN TrimStart(Tail(s)) ELSE s

RECURSIVE TrimEnd(_)
TrimEnd(s) ==
  IF s # <<>> /\ s[Len(s)] \in WhiteSpace
  THEN TrimEnd(SubSeq(s, 1, Len(s) - 1)) ELSE s

\* a trim that leaves the string as captured
TrimNot(s) == s

\* String.prototype.trim
Trim(s) == TrimEnd(TrimStart(s))

\* the decimal digit of a slot number 1..9
DigitOf(i) == <<"0", "1", "2", "3", "4", "5", "6", "7", "8", "9">>[i + 1]

\* output[`#${i}`] after the forEach of lines 164-166: the capture of the
\* last placeholder spelled #i, or undefined
OutputAt(phs, caps, i) ==
  LET key == <<"#", DigitOf(i)>>
      idx == {j \in 1..Len(phs) : phs[j] = key}
  IN IF idx = {} THEN Undefined
     ELSE Str(caps[CHOOSE j \in idx : \A j2 \in idx : j2 <= j])

\* output[`#${i + 1}`]?.trim()
SlotValue(phs, caps, i) ==
  LET v == OutputAt(phs, caps, i)
  IN IF IsStr(v) THEN Str(Trim(v[2])) ELSE Undefined

RECURSIVE PopUndefined(_)
\* while (result.length && result[result.length - 1] === undefined) pop
PopUndefined(r) ==
  IF r # <<>> /\ r[Len(r)] = Undefined
  THEN PopUndefined(SubSeq(r, 1, Len(r) - 1)) ELSE r

\* the outcomes of extractArgumentsWithOrder
Thrown == <<"throw", <<>>>>
ReturnNull == <<"null", <<>>>>
ReturnArray(r) == <<"array", r>>

\* extractArgumentsWithOrder(template, inputString)
extractArgumentsWithOrder(template, inputString) ==
  IF template = <<>> THEN Thrown
  ELSE IF inputString = <<>> THEN ReturnNull
  ELSE LET phs == Placeholders(template)
           src == SubstituteGroups(EscapeTemplate(template), phs)
           m == RegexMatch(Compile(src), inputString)
       IN IF m[1] = "match"
          THEN ReturnArray(PopUndefined(
                 [i \in 1..ArgSlots |-> SlotValue(phs, m[2], i)]))
          ELSE ReturnNull

\* ------------------------------------------------------------------ atoms
Nodes == 1..MaxNodes
JsTrue == <<"true", <<>>>>
JsFalse == <<"false", <<>>>>

\* the name every macro of the model is invoked by
MacroCommand == <<"\\", "m">>

\* a slot of the tree that holds no atom
NoAtom ==
  [kind |-> "none", parent |-> 0, value |-> <<>>, command |-> <<>>,
   def |-> <<>>, macroArgs |-> Undefined, expand |-> FALSE,
   captureSelection |-> FALSE]

\* an atom that is no macro: it serializes to its own text, then its body
PlainAtom(p, v) == [NoAtom EXCEPT !.kind = "plain", !.parent = p, !.value = v]

\* new MacroAtom(macro, options)
MacroAtom(macro, options) ==
  [kind |-> "macro", parent |-> 0, value |-> <<>>, command |-> macro,
   def |-> options.def, macroArgs |-> options.args,
   expand |-> (options.expand = JsTrue),
   captureSelection |->
     IF options.captureSelection = Undefined
     THEN ~Truthy(options.args)
     ELSE options.captureSelection = JsTrue]

\* MacroAtom.toJson: the fields written next to those of Atom.toJson
toJson(a) ==
  [command |-> a.command,
   expand |-> IF a.expand THEN JsTrue ELSE Undefined,
   captureSelection |-> IF a.captureSelection THEN JsTrue ELSE JsFalse,
   args |-> IF Truthy(a.macroArgs) THEN a.macroArgs ELSE Undefined,
   def |-> a.def]

\* MacroAtom.fromJson
fromJson(json) == MacroAtom(json.command, json)

RECURSIVE ChildrenFrom(_, _, _)
ChildrenFrom(a, n, c) ==
  IF c > MaxNodes THEN <<>>
  ELSE (IF a[c].kind # "none" /\ a[c].parent = n THEN <<c>> ELSE <<>>)
       \o ChildrenFrom(a, n, c + 1)

\* atom n's body: its children, in order
Body(a, n) == ChildrenFrom(a, n, 1)

RECURSIVE serialize(_, _, _)
RECURSIVE bodyToLatex(_, _, _)

\* MacroAtom._serialize
macroSerialize(a, n, expandMacro) ==
  IF expandMacro /\ a[n].expand
  THEN bodyToLatex(a, n, expandMacro)
  ELSE a[n].command \o Coalesce(a[n].macroArgs, <<>>)

\* Atom.serialize of any atom
serialize(a, n, expandMacro) ==
  IF a[n].kind = "macro" THEN macroSerialize(a, n, expandMacro)
  ELSE a[n].value \o bodyToLatex(a, n, expandMacro)

\* Atom.bodyToLatex: the body's atoms serialized, joined
bodyToLatex(a, n, expandMacro) ==
  LET b == Body(a, n)
  IN Concat([i \in 1..Len(b) |-> serialize(a, b[i], expandMacro)])

\* an encoding that leaves the braces out
EncodeArgsBare(args) ==
  Concat([i \in 1..Len(args) |-> IF Truthy(args[i]) THEN args[i][2] ELSE <<>>])

\* args.map((arg) => `{${arg || ''}}`).join('')
EncodeArgs(args) ==
  Concat([i \in 1..Len(args) |->
            <<"{">> \o (IF Truthy(args[i]) THEN args[i][2] ELSE <<>>) \o <<"}">>])

\* MacroAtom.reloadArgs: the new _macroArgs, or Thrown
reloadArgs(a, n) ==
  LET r == extractArgumentsWithOrder(a[n].def, bodyToLatex(a, n, FALSE))
  IN IF r[1] = "throw" THEN Thrown
     ELSE IF r[1] = "array" THEN Str(EncodeArgs(r[2]))
     ELSE Null

\* an assignment that also sets captureSelection the way the constructor does
setMacroArgsAndCapture(a, n, v) ==
  [a EXCEPT ![n].macroArgs = v, ![n].captureSelection = ~Truthy(v)]

\* this._macroArgs = ... of reloadArgs
setMacroArgs(a, n, v) == [a EXCEPT ![n].macroArgs = v]

\* a test that takes every atom for a macro
isAnyAtom(a, n) == TRUE

\* parent.type === 'macro' && parent instanceof MacroAtom
isMacroAtom(a, n) == a[n].kind = "macro"

\* the style attributes applyStyle may be given
StyleAttrs == {"color", "fontWeight"}

\* MacroAtom.applyStyle: the allowedStyle handed to Atom.applyStyle
allowedStyle(style) == style \cap {"color", "backgroundColor"}

\* ------------------------------------------------------------------ state
VARIABLES
  atom,    \* the tree: slot -> atom (kind, parent, fields)
  pc,      \* reloadParentsMacros: "idle", "walk", "done", "raised"
  start,   \* the argument the running or last walk was called with (0: undefined)
  cur,     \* the walk's local variable parent (0: undefined)
  calls,   \* the atoms reloadArgs() was called on by the running or last walk
  edited,  \* the atom whose text was edited last (0: none yet)
  op,      \* the last operation: <<name, atom>>
  ret,     \* what the last operation returned, or Thrown
  copy,    \* the atom the last fromJson built
  given    \* matcher runs: the argument encoding the parser supplied

vars == <<atom, pc, start, cur, calls, edited, op, ret, copy, given>>

Exists(n) == n \in Nodes /\ atom[n].kind # "none"
IsMacro(n) == n \in Nodes /\ atom[n].kind = "macro"
\* no walk is running: the editor runs one call to completion before the next
Idle == pc # "walk"

\* ------------------------------------------------------------ input sets
\* the texts an edit may leave in an atom
EditTexts == {<<>>, <<"a">>}
\* the options the constructor is called with when a macro is inserted
Options(d, args, e, c) ==
  [def |-> d, args |-> args, expand |-> e, captureSelection |-> c]
CtorOptions ==
  { Options(<<"#", "1">>, Str(<<"{", "a", "}">>), Undefined, Undefined),
    Options(<<"#", "1">>, Str(<<"{", "a", "}">>), JsTrue, JsTrue),
    Options(<<"a">>, Null, Undefined, JsFalse),
    Options(<<>>, Null, Undefined, Undefined) }

\* ------------------------------------------------------------- operations
\* The record of a walk (its argument, its local variable, its calls) and of
\* the edit before it is kept until the next operation that is no walk.
Forget ==
  /\ pc' = "idle"
  /\ start' = 0
  /\ cur' = 0
  /\ calls' = <<>>
  /\ edited' = 0

\* The parser expands a macro invocation under atom p: new MacroAtom(...)
\* with a body of one atom holding the text a, in the next free slots.
Insert(p, options) ==
  /\ Idle
  /\ Exists(p)
  /\ \E m \in Nodes :
       /\ m + 1 \in Nodes
       /\ atom[m].kind = "none"
       /\ \A k \in Nodes : k < m => atom[k].kind # "none"
       /\ atom' = [atom EXCEPT
            ![m] = [MacroAtom(MacroCommand, options) EXCEPT !.parent = p],
            ![m + 1] = PlainAtom(m, <<"a">>)]
       /\ op' = <<"new", m>>
  /\ ret' = Undefined
  /\ copy' = NoAtom
  /\ Forget
  /\ UNCHANGED given

\* The editing layer changes the text of atom n, an atom of text (no macro,
\* no body), then calls reloadParentsMacros(n.parent).
Edit(n, v) ==
  /\ Idle
  /\ Exists(n)
  /\ atom[n].kind = "plain"
  /\ Body(atom, n) = <<>>
  /\ v # atom[n].value
  /\ atom' = [atom EXCEPT ![n].value = v]
  /\ edited' = n
  /\ pc' = "walk"
  /\ start' = atom[n].parent
  /\ cur' = atom[n].parent
  /\ calls' = <<>>
  /\ op' = <<"edit", n>>
  /\ ret' = Undefined
  /\ copy' = NoAtom
  /\ UNCHANGED given

\* reloadParentsMacros(n) is called on its own (n = 0: undefined)
StartWalk(n) ==
  /\ Idle
  /\ n = 0 \/ Exists(n)
  /\ pc' = "walk"
  /\ start' = n
  /\ cur' = n
  /\ calls' = <<>>
  /\ op' = <<"reloadParentsMacros", n>>
  /\ ret' = Undefined
  /\ copy' = NoAtom
  /\ UNCHANGED <<atom, edited, given>>

\* one turn of the loop on a macro: parent.reloadArgs() returns
WalkReload ==
  /\ pc = "walk"
  /\ cur # 0
  /\ isMacroAtom(atom, cur)
  /\ reloadArgs(atom, cur) # Thrown
  /\ atom' = setMacroArgs(atom, cur, reloadArgs(atom, cur))
  /\ calls' = Append(calls, cur)
  /\ cur' = atom[cur].parent
  /\ op' = <<"reloadArgs", cur>>
  /\ ret' = Undefined
  /\ copy' = NoAtom
  /\ UNCHANGED <<pc, start, edited, given>>

\* one turn of the loop on a macro: parent.reloadArgs() throws, and the
\* error leaves reloadParentsMacros
WalkThrow ==
  /\ pc = "walk"
  /\ cur # 0
  /\ isMacroAtom(atom, cur)
  /\ reloadArgs(atom, cur) = Thrown
  /\ calls' = Append(calls, cur)
  /\ pc' = "raised"
  /\ op' = <<"reloadArgs", cur>>
  /\ ret' = Thrown
  /\ copy' = NoAtom
  /\ UNCHANGED <<atom, start, cur, edited, given>>

\* one turn of the loop on an atom that is no macro
WalkSkip ==
  /\ pc = "walk"
  /\ cur # 0
  /\ ~isMacroAtom(atom, cur)
  /\ cur' = atom[cur].parent
  /\ op' = <<"skip", cur>>
  /\ ret' = Undefined
  /\ copy' = NoAtom
  /\ UNCHANGED <<atom, pc, start, calls, edited, given>>

\* the loop ends: parent is undefined
WalkReturn ==
  /\ pc = "walk"
  /\ cur = 0
  /\ pc' = "done"
  /\ op' = <<"return", 0>>
  /\ ret' = Undefined
  /\ copy' = NoAtom
  /\ UNCHANGED <<atom, start, cur, calls, edited, given>>

\* n.reloadArgs() called directly
Reload(n) ==
  /\ Idle
  /\ IsMacro(n)
  /\ IF reloadArgs(atom, n) = Thrown
     THEN /\ ret' = Thrown
          /\ atom' = atom
     ELSE /\ ret' = Undefined
          /\ atom' = setMacroArgs(atom, n, reloadArgs(atom, n))
  /\ op' = <<"reloadArgs", n>>
  /\ copy' = NoAtom
  /\ Forget
  /\ UNCHANGED given

\* n._serialize({expandMacro})
Serialize(n, expandMacro) ==
  /\ Idle
  /\ IsMacro(n)
  /\ ret' = Str(macroSerialize(atom, n, expandMacro))
  /\ op' = <<"serialize", n>>
  /\ copy' = NoAtom
  /\ Forget
  /\ UNCHANGED <<atom, given>>

\* n.render(context): the box of the body, or null when there is none
Render(n) ==
  /\ Idle
  /\ IsMacro(n)
  /\ ret' = IF Body(atom, n) = <<>> THEN Null ELSE <<"box", Body(atom, n)>>
  /\ op' = <<"render", n>>
  /\ copy' = NoAtom
  /\ Forget
  /\ UNCHANGED <<atom, given>>

\* n.applyStyle(style): the style forwarded to Atom.applyStyle
ApplyStyle(n, style) ==
  /\ Idle
  /\ IsMacro(n)
  /\ ret' = <<"style", allowedStyle(style)>>
  /\ op' = <<"applyStyle", n>>
  /\ copy' = NoAtom
  /\ Forget
  /\ UNCHANGED <<atom, given>>

\* n.toJson()
ToJson(n) ==
  /\ Idle
  /\ IsMacro(n)
  /\ ret' = <<"json", toJson(atom[n])>>
  /\ op' = <<"toJson", n>>
  /\ copy' = NoAtom
  /\ Forget
  /\ UNCHANGED <<atom, given>>

\* MacroAtom.fromJson(json) of the snapshot toJson just returned
FromJson ==
  /\ op[1] = "toJson"
  /\ copy' = fromJson(ret[2])
  /\ op' = <<"fromJson", op[2]>>
  /\ Forget
  /\ UNCHANGED <<atom, ret, given>>

\* ----------------------------------------------------------- the editor
Init ==
  /\ atom = [n \in Nodes |-> IF n = 1 THEN PlainAtom(0, <<>>) ELSE NoAtom]
  /\ pc = "idle"
  /\ start = 0
  /\ cur = 0
  /\ calls = <<>>
  /\ edited = 0
  /\ op = <<"init", 0>>
  /\ ret = Undefined
  /\ copy = NoAtom
  /\ given = Undefined

Walk == WalkReload \/ WalkThrow \/ WalkSkip \/ WalkReturn

Next ==
  \/ \E p \in Nodes, options \in CtorOptions : Insert(p, options)
  \/ \E n \in Nodes, v \in EditTexts : Edit(n, v)
  \/ \E n \in Nodes \cup {0} : StartWalk(n)
  \/ Walk
  \/ \E n \in Nodes : Reload(n)
  \/ \E n \in Nodes, x \in BOOLEAN : Serialize(n, x)
  \/ \E n \in Nodes : Render(n)
  \/ \E n \in Nodes, style \in SUBSET StyleAttrs : ApplyStyle(n, style)
  \/ \E n \in Nodes : ToJson(n)
  \/ FromJson

Spec == Init /\ [][Next]_vars

\* ------------------------------------------------------ trees under edit
\* the owner of each slot: slot 1 is the root, every other atom is owned by
\* one of the two slots before it
WalkShapes ==
  {par \in [Nodes -> 0..MaxNodes] :
     /\ par[1] = 0
     /\ \A n \in Nodes \ {1} : par[n] < n /\ par[n] >= 1 /\ par[n] >= n - 2}

\* what a slot of a parsed tree holds: an atom that is no macro (the text a
\* when it has no body), a macro \m{a} with the template #1, or a macro
\* with the empty template
WalkKinds == {"plain", "macro", "untemplated"}

WalkAtom(k, p, leaf) ==
  IF k = "plain" THEN PlainAtom(p, IF leaf THEN <<"a">> ELSE <<>>)
  ELSE IF k = "macro"
  THEN [MacroAtom(MacroCommand,
                  Options(<<"#", "1">>, Str(<<"{", "a", "}">>), Undefined, Undefined))
        EXCEPT !.parent = p]
  ELSE [MacroAtom(MacroCommand, Options(<<>>, Null, Undefined, Undefined))
        EXCEPT !.parent = p]

\* a tree the parser built, before any edit
InitWalk ==
  /\ \E par \in WalkShapes, k \in [Nodes -> WalkKinds] :
       /\ k[1] = "plain"
       /\ atom = [n \in Nodes |->
                    WalkAtom(k[n], par[n], \A c \in Nodes : par[c] # n)]
  /\ pc = "idle"
  /\ start = 0
  /\ cur = 0
  /\ calls = <<>>
  /\ edited = 0
  /\ op = <<"init", 0>>
  /\ ret = Undefined
  /\ copy = NoAtom
  /\ given = Undefined

NextWalk ==
  \/ \E n \in Nodes, v \in EditTexts : Edit(n, v)
  \/ \E n \in Nodes \cup {0} : StartWalk(n)
  \/ Walk

SpecWalk == InitWalk /\ [][NextWalk]_vars

\* --------------------------------------------------------- matcher runs
RECURSIVE SeqsUpTo(_, _)
\* the sequences over S of length at most k
SeqsUpTo(S, k) ==
  IF k = 0 THEN {<<>>}
  ELSE LET shorter == SeqsUpTo(S, k - 1)
       IN shorter \cup {Append(s, x) : s \in shorter, x \in S}

\* what a template of the matcher runs is built from
TmplTokens == {<<"#", "1">>, <<"#", "2">>, <<"#", "9">>, <<"a">>, <<".">>, <<"\\">>}
Templates == {Concat(ts) : ts \in SeqsUpTo(TmplTokens, MaxTmplToks)}
\* the characters of a body text of the matcher runs
BodyChars == {"a", ".", " "}
Bodies == SeqsUpTo(BodyChars, MaxBodyLen)
\* the literal arguments a macro is invoked with
ArgLits == {<<>>, <<"a">>, <<".", "a">>, <<" ", "a">>}
\* the argument encodings a macro may be constructed with
InitArgs == {Str(<<"{", "a", "}">>)}

\* the expansion of a template: #1 and #2 replaced by the literal arguments
Expand(t, a1, a2) == ReplaceAll(ReplaceAll(t, <<"#", "1">>, a1), <<"#", "2">>, a2)

\* the number of arguments a macro with this template takes (#1, #2 only)
ArgCount(t) ==
  IF \E i \in 1..Len(Placeholders(t)) : Placeholders(t)[i] = <<"#", "2">> THEN 2
  ELSE IF Placeholders(t) # <<>> THEN 1 ELSE 0

\* the argument encoding of an invocation: {a1}{a2}, or null for no argument
Invocation(t, a1, a2) ==
  IF ArgCount(t) = 0 THEN Null
  ELSE IF ArgCount(t) = 1 THEN Str(<<"{">> \o a1 \o <<"}">>)
  ELSE Str(<<"{">> \o a1 \o <<"}", "{">> \o a2 \o <<"}">>)

\* one macro (slot 1) whose body is one atom of text (slot 2)
MatchTree(t, args, body) ==
  [n \in Nodes |->
     IF n = 1 THEN MacroAtom(MacroCommand, Options(t, args, Undefined, Undefined))
     ELSE IF n = 2 THEN PlainAtom(1, body)
     ELSE NoAtom]

\* a macro with any template, any body and any argument encoding, or one
\* the parser built from an invocation with literal arguments
InitMatch ==
  /\ \/ \E t \in Templates, b \in Bodies, args \in InitArgs :
          /\ atom = MatchTree(t, args, b)
          /\ given = Undefined
     \/ \E t \in Templates, a1 \in ArgLits, a2 \in ArgLits :
          /\ \A i \in 1..Len(Placeholders(t)) :
                Placeholders(t)[i] \in {<<"#", "1">>, <<"#", "2">>}
          /\ atom = MatchTree(t, Invocation(t, a1, a2), Expand(t, a1, a2))
          /\ given = Invocation(t, a1, a2)
  /\ pc = "idle"
  /\ start = 0
  /\ cur = 0
  /\ calls = <<>>
  /\ edited = 0
  /\ op = <<"init", 0>>
  /\ ret = Undefined
  /\ copy = NoAtom

NextMatch == \E n \in Nodes : Reload(n)

SpecMatch == InitMatch /\ [][NextMatch]_vars

\* ================================================================ claims
RECURSIVE Chain(_, _)
\* the owner chain of atom n: n, its owner, ... up to the root (0: none)
Chain(a, n) == IF n = 0 THEN <<>> ELSE <<n>> \o Chain(a, a[n].parent)

\* the macros on the owner chain of n, nearest first
MacroChain(a, n) == SelectSeq(Chain(a, n), LAMBDA m : a[m].kind = "macro")

OnChain(a, m, n) == \E i \in 1..Len(Chain(a, n)) : Chain(a, n)[i] = m

\* a walk has ended, by returning or by an error
WalkEnded == pc \in {"done", "raised"}

\* C1: every walk ends having called reloadArgs() exactly once on each macro
\* on the owner chain of its starting atom, nearest first, and on nothing else.
C1_WalkCallsEveryMacroOnChain ==
  WalkEnded => calls = MacroChain(atom, start)

\* what the matcher derives for macro m from its template and its body now
Derived(a, m) ==
  LET r == extractArgumentsWithOrder(a[m].def, bodyToLatex(a, m, FALSE))
  IN IF r[1] = "array" THEN Str(EncodeArgs(r[2])) ELSE Null

\* C2: after an edit and the walk from the edited atom's owner, every macro
\* above the edited atom holds the argument encoding the matcher derives from
\* its template and its body (nested macros included).
C2_AncestorsReconciled ==
  (WalkEnded /\ edited # 0) =>
    \A m \in Nodes :
      (IsMacro(m) /\ atom[m].def # <<>> /\ OnChain(atom, m, edited))
        => atom[m].macroArgs = Derived(atom, m)

\* C5: a macro with a template whose body, after an edit below it, no longer
\* matches the template has null arguments once a walk from an atom below it
\* has ended, and that walk ends without an error.
C5_NonMatchClears ==
  \A m \in Nodes :
    ( /\ WalkEnded
      /\ edited # 0
      /\ IsMacro(m)
      /\ atom[m].def # <<>>
      /\ OnChain(atom, m, edited)
      /\ OnChain(atom, m, start)
      /\ extractArgumentsWithOrder(atom[m].def, bodyToLatex(atom, m, FALSE))
           = ReturnNull )
    => (pc = "done" /\ atom[m].macroArgs = Null)

\* the tree root -> macroA -> plainNode -> macroB -> editedLeaf in slots 1..5
ScopeTree ==
  /\ \A n \in 1..5 : atom[n].parent = n - 1
  /\ atom[1].kind = "plain" /\ atom[3].kind = "plain" /\ atom[5].kind = "plain"
  /\ atom[2].kind = "macro" /\ atom[4].kind = "macro"

\* C9 as stated: in that tree, after the leaf was edited, the walk from
\* plainNode calls reloadArgs() on macroB and then on macroA.
C9_WalkFromPlainNodeReachesBoth ==
  (ScopeTree /\ edited = 5 /\ WalkEnded /\ start = 3) => calls = <<4, 2>>

\* C9 amended: in that tree, after the leaf was edited, the walk from
\* plainNode calls reloadArgs() on macroA only (macroB lies below plainNode);
\* the walk from the leaf or from macroB calls it on macroB and then, unless
\* that call raised, on macroA; no walk calls it on an atom that is no macro.
C9_WalkScope ==
  (ScopeTree /\ edited = 5 /\ WalkEnded) =>
    /\ start = 3 => calls = <<2>>
    /\ start \in {4, 5} =>
         \/ calls = <<4, 2>>
         \/ calls = <<4>> /\ pc = "raised" /\ atom[4].def = <<>>
    /\ \A i \in 1..Len(calls) : atom[calls[i]].kind = "macro"

C9_Witness ==
  ScopeTree /\ edited = 5 /\ pc = "done" /\ start = 3 /\ calls = <<2>>

\* the placeholder #i stands somewhere in template t
SlotIn(t, i) ==
  \E p \in 1..(Len(t) - 1) :
    /\ t[p] = "#"
    /\ t[p + 1] = DigitOf(i)
    /\ (p + 2 > Len(t) \/ t[p + 2] \notin Digits)

\* the largest of the numbers 1..8 that is a placeholder of t (0: none)
HighestSlot(t) ==
  IF \E i \in 1..ArgSlots : SlotIn(t, i)
  THEN CHOOSE i \in 1..ArgSlots :
         SlotIn(t, i) /\ \A j \in 1..ArgSlots : SlotIn(t, j) => j <= i
  ELSE 0

\* the text has no white space at either end
Trimmed(s) == s = <<>> \/ (s[1] \notin WhiteSpace /\ s[Len(s)] \notin WhiteSpace)

\* the captures of the template's pattern on the body, one per placeholder
\* found in the template, in template order
Captures(t, b) ==
  RegexMatch(Compile(SubstituteGroups(EscapeTemplate(t), Placeholders(t))), b)[2]

\* reloadArgs() was just called on macro n, returned, and left arguments
Reloaded(n) ==
  /\ op = <<"reloadArgs", n>>
  /\ ret # Thrown
  /\ IsStr(atom[n].macroArgs)

\* C3 as stated: a macro built from an invocation with literal arguments
\* (body: the template with the arguments substituted) still has the
\* invocation's argument encoding after reloadArgs(); no arguments at all
\* is taken to be the same whether kept as null or as the empty text.
C3_RoundTripUnderNoEdit ==
  (given # Undefined /\ op[1] = "reloadArgs") =>
    \/ atom[1].macroArgs = given
    \/ ~Truthy(atom[1].macroArgs) /\ ~Truthy(given)

\* C3 amended: after reloadArgs() on such a macro the argument encoding is a
\* fixed point (a second reloadArgs() would leave what the first left), and
\* it is the invocation's encoding when the template holds one placeholder,
\* #1, and the argument is not empty and has no white space at its ends.
C3_ReloadIsIdempotent ==
  (given # Undefined /\ op = <<"reloadArgs", 1>> /\ ret # Thrown) =>
    /\ reloadArgs(atom, 1) = atom[1].macroArgs
    /\ ( /\ Placeholders(atom[1].def) = <<<<"#", "1">>>>
         /\ Len(given[2]) > 2
         /\ Trimmed(SubSeq(given[2], 2, Len(given[2]) - 1)) )
       => atom[1].macroArgs = given

C3_Witness ==
  /\ op = <<"reloadArgs", 1>>
  /\ atom[1].def = <<"a", "#", "1">>
  /\ given = Str(<<"{", ".", "a", "}">>)
  /\ atom[1].macroArgs = given

\* C4 as stated: the arguments left by reloadArgs() are one per placeholder
\* found in the template, in template order, each trimmed.
C4_OnePerPlaceholderInTemplateOrder ==
  \A n \in Nodes :
    Reloaded(n) =>
      LET t == atom[n].def
          caps == Captures(t, bodyToLatex(atom, n, FALSE))
      IN atom[n].macroArgs =
           Str(Concat([j \in 1..Len(Placeholders(t)) |->
                         <<"{">> \o Trim(caps[j]) \o <<"}">>]))

\* C4 amended: the arguments left by reloadArgs() are one per number from 1
\* to the largest placeholder number of the template that is at most 8, in
\* ascending order of the numbers: the trimmed capture of the last
\* placeholder with that number, or nothing for a number the template does
\* not use; a template with the placeholders #1 and #2 only yields exactly 2.
C4_OnePerSlotInNumberOrder ==
  \A n \in Nodes :
    Reloaded(n) =>
      LET t == atom[n].def
          b == bodyToLatex(atom, n, FALSE)
          phs == Placeholders(t)
          h == HighestSlot(t)
          arg(i) ==
            IF SlotIn(t, i)
            THEN Trim(Captures(t, b)[
                   CHOOSE j \in 1..Len(phs) :
                     /\ phs[j] = <<"#", DigitOf(i)>>
                     /\ \A k \in (j + 1)..Len(phs) : phs[k] # phs[j]])
            ELSE <<>>
      IN /\ atom[n].macroArgs =
              Str(Concat([i \in 1..h |-> <<"{">> \o arg(i) \o <<"}">>]))
         /\ \A i \in 1..h : Trimmed(arg(i))
         /\ extractArgumentsWithOrder(t, b)[1] = "array"
         /\ Len(extractArgumentsWithOrder(t, b)[2]) = h
         /\ ( /\ SlotIn(t, 1) /\ SlotIn(t, 2)
              /\ \A j \in 1..Len(phs) : phs[j] \in {<<"#", "1">>, <<"#", "2">>} )
            => Len(extractArgumentsWithOrder(t, b)[2]) = 2

C4_Witness ==
  /\ Reloaded(1)
  /\ atom[1].def = <<"#", "2">>
  /\ atom[1].macroArgs = Str(<<"{", "}", "{", "a", "}">>)

\* the template holds no placeholder
NoPlaceholder(t) == \A p \in 1..(Len(t) - 1) : ~(t[p] = "#" /\ t[p + 1] \in Digits)

\* C8: for a template without placeholder that is not empty, the matcher
\* succeeds exactly when the body is the template, then with no argument;
\* for any other body it returns no match and reloadArgs() leaves null.
C8_NoPlaceholderTemplate ==
  \A n \in Nodes :
    (op = <<"reloadArgs", n>> /\ atom[n].def # <<>> /\ NoPlaceholder(atom[n].def)) =>
      LET t == atom[n].def
          b == bodyToLatex(atom, n, FALSE)
      IN /\ (extractArgumentsWithOrder(t, b) = ReturnArray(<<>>)) <=> (b = t)
         /\ b # t => /\ extractArgumentsWithOrder(t, b) = ReturnNull
                     /\ atom[n].macroArgs = Null
         /\ ret # Thrown

C8_Witness ==
  /\ op = <<"reloadArgs", 1>>
  /\ atom[1].def = <<".", "a">>
  /\ atom[2].value = <<".", "a">>
  /\ atom[1].macroArgs = Str(<<>>)

\* C6 as stated: the constructor raises on an empty template, and so does
\* reloadArgs() on a macro whose template is empty.
C6_EmptyTemplateRaises ==
  \A n \in Nodes :
    (op[2] = n /\ op[1] \in {"new", "reloadArgs"} /\ IsMacro(n) /\ atom[n].def = <<>>)
      => ret = Thrown

\* null and undefined both say that there are no arguments
SameArgs(x, y) == x = y \/ (~IsStr(x) /\ ~IsStr(y))

\* C7 as stated: the macro fromJson builds from a macro's toJson has the
\* same command, template, arguments, expand and captureSelection.
C7_SnapshotRoundTrip ==
  \A n \in Nodes :
    op = <<"fromJson", n>> =>
      /\ copy.command = atom[n].command
      /\ copy.def = atom[n].def
      /\ copy.expand = atom[n].expand
      /\ copy.captureSelection = atom[n].captureSelection
      /\ SameArgs(copy.macroArgs, atom[n].macroArgs)

\* atom n but for its arguments
Frame(a, n) == [a[n] EXCEPT !.macroArgs = Undefined]

\* C10: the arguments of a macro change only in a step of reloadArgs() on
\* that macro that returns; a step of reloadArgs() changes nothing else of
\* any atom, and nothing at all when it raises; command, template, expand
\* and captureSelection of a macro never change.
C10_OnlyReloadWritesArgs ==
  [][\A n \in Nodes :
       /\ (IsMacro(n) /\ atom'[n].macroArgs # atom[n].macroArgs)
            => (op' = <<"reloadArgs", n>> /\ ret' # Thrown)
       /\ op'[1] = "reloadArgs" =>
            /\ Frame(atom', n) = Frame(atom, n)
            /\ ret' = Thrown => atom' = atom
       /\ IsMacro(n) =>
            /\ atom'[n].command = atom[n].command
            /\ atom'[n].def = atom[n].def
            /\ atom'[n].expand = atom[n].expand
            /\ atom'[n].captureSelection = atom[n].captureSelection]_vars

C10_Witness ==
  \E n \in Nodes :
    /\ op = <<"reloadArgs", n>>
    /\ ret # Thrown
    /\ atom[n].def = <<"#", "1">>
    /\ atom[n].macroArgs = Null
====
